---- MODULE Spec2Model ----
(***************************************************************************)
(* State-machine model of the epic-snake WebSocket game server             *)
(* (src/wsserver/index.ts): the session map, the round state, the food     *)
(* list, the announcement buffer, the pending timers and the handlers      *)
(* open / message / close, the one-second tick and the timer callbacks.    *)
(*                                                                         *)
(* Every handler runs to completion (single-threaded event loop), so each  *)
(* handler is one action.  The functions of the source are operators that  *)
(* take and return a "world" record w holding the module-level state they  *)
(* mutate: players, gameState, recentAnnouncements, timers (the pending    *)
(* setTimeout callbacks) and sent (the ws.send calls of the handler).      *)
(*                                                                         *)
(* Clock readings are kept relative to the current instant: Date.now()     *)
(* reads 0, and when time passes Advance subtracts the elapsed time from   *)
(* every stored reading (lastUpdate, serverTime, roundEndTime,             *)
(* lastAnnouncementTime, the timers' due times).  The differences and      *)
(* comparisons of readings the source computes are unchanged by this.  A   *)
(* reading older than every delay the source compares against is kept at   *)
(* that age.                                                               *)
(*                                                                         *)
(* Coordinates are whole pixels: where the source computes with floats     *)
(* (Math.sqrt, the 0.5 interpolation) the model rounds down.  Distance     *)
(* comparisons are made on squared distances and are exact.                *)
(***************************************************************************)
EXTENDS Integers, Sequences, FiniteSets, TLC

(* ------------------------------------------------------------------ *)
(* Program constants                                                   *)
(* ------------------------------------------------------------------ *)
SEGMENT_RADIUS == 10
COLLISION_DISTANCE == SEGMENT_RADIUS * 2
SEGMENT_DISTANCE == SEGMENT_RADIUS * 2
FOOD_COUNT == 100
FOOD_RADIUS == 5
FOOD_SCORE_VALUE == 1
FOOD_SEGMENTS_GROWTH == 2
KILL_SEGMENTS_GROWTH == 5
WINNING_KILLS == 10
MIN_PLAYERS_TO_START == 2
MAP_WIDTH == 2400
MAP_HEIGHT == 1800
INITIAL_SPAWN_AREA_WIDTH == 800
INITIAL_SPAWN_AREA_HEIGHT == 600
INACTIVE_TIMEOUT_MS == 30000
TICK_INTERVAL_MS == 1000
CHECK_DELAY_MS == 100
RESPAWN_DELAY_MS == 3000
GAME_OVER_DELAY_MS == 5000
ANNOUNCEMENT_TTL_MS == 3000
ANNOUNCEMENT_DURATION_MS == 2000
TAIL_KILL_SCORE == 5
MOVER_KILL_SCORE == 1
KILL_STREAK_ANNOUNCE == 5
SCORE_MILESTONE == 50
LENGTH_MILESTONE_1 == 50
LENGTH_MILESTONE_2 == 100

\* null / undefined: no id, heading or clock reading has this value
NULL == -1000000

(* ------------------------------------------------------------------ *)
(* Bounds of the model                                                 *)
(* ------------------------------------------------------------------ *)
\* connections open at the same time
MaxConns == 2
\* a movement that would make a snake longer than this is not sent
MaxSegs == 3
\* a movement that would take a kill counter more than this above the one
\* the behaviour starts with is not sent
MaxKills == 1
\* a movement that would take a score above this is not sent
MaxScore == 56
\* pending setTimeout callbacks
MaxTimers == 1
\* a movement that would take the pending growth of a snake more than this
\* above the one the behaviour starts with, or below that one, is not sent
MaxGrowth == 7
\* time passes in one step over at most this many tick intervals
MaxJumpTicks == 31
\* food items generated within reach of the positions the clients send
MaxNearFood == 2

(* ------------------------------------------------------------------ *)
(* Geometry                                                            *)
(* ------------------------------------------------------------------ *)
Pos(px, py) == [x |-> px, y |-> py]

\* S lies in the spawn rectangle; the positions clients send are Q and R,
\* 30 px from each other and 100 px or more from S
PointS == Pos(1200, 900)
PointQ == Pos(1300, 900)
PointR == Pos(1318, 924)
\* U and V lie 20 px or more from S, Q, R and from each other; a tail drawn
\* from R towards V passes within COLLISION_DISTANCE of U
PointU == Pos(1350, 905)
PointV == Pos(1418, 924)
\* W lies 20 px or more from S, Q and R; a tail drawn from W towards R and
\* one drawn from Q towards W cross
PointW == Pos(1350, 930)
Points == {PointS, PointQ, PointR, PointU, PointV, PointW}
\* Math.random() in the spawn rectangle yields S
SpawnPoints == {PointS}
\* Math.random() on the map yields a point 10 px from Q or one far from
\* every position a head takes
NearFood == Pos(1294, 892)
\* a point 10 px from W
NearFoodW == Pos(1344, 922)
FarFood == Pos(100, 100)
\* data.rotation of a client heading for Q
HeadingQ == 53

InSpawnArea(p) ==
    /\ 2 * p.x >= MAP_WIDTH - INITIAL_SPAWN_AREA_WIDTH
    /\ 2 * p.x < MAP_WIDTH + INITIAL_SPAWN_AREA_WIDTH
    /\ 2 * p.y >= MAP_HEIGHT - INITIAL_SPAWN_AREA_HEIGHT
    /\ 2 * p.y < MAP_HEIGHT + INITIAL_SPAWN_AREA_HEIGHT

InMap(p) == p.x >= 0 /\ p.x < MAP_WIDTH /\ p.y >= 0 /\ p.y < MAP_HEIGHT

DistSq(a, b) == (a.x - b.x) * (a.x - b.x) + (a.y - b.y) * (a.y - b.y)

\* Math.sqrt(...) < d
Closer(a, b, d) == DistSq(a, b) < d * d

\* the largest r in lo..hi with r * r <= n (bisection)
RECURSIVE IsqrtIn(_, _, _)
IsqrtIn(n, lo, hi) ==
    IF lo >= hi THEN lo
    ELSE LET mid == (lo + hi + 1) \div 2
         IN IF mid * mid <= n THEN IsqrtIn(n, mid, hi) ELSE IsqrtIn(n, lo, mid - 1)

\* Math.sqrt, rounded down
Isqrt(n) == IsqrtIn(n, 0, MAP_WIDTH + MAP_HEIGHT)

(* ------------------------------------------------------------------ *)
(* State                                                               *)
(* ------------------------------------------------------------------ *)
VARIABLES
    players,              \* the Map, as its entries in insertion order
    gameState,            \* the GameState object
    recentAnnouncements,  \* the retained announcements
    timers,               \* pending setTimeout callbacks, in creation order
    tickDue,              \* when the setInterval callback runs next
    sockets,              \* connections opened and not yet closed
    opened,               \* number of connections opened so far
    sent                  \* the ws.send calls of the last handler, in order

vars == <<players, gameState, recentAnnouncements, timers, tickDue,
          sockets, opened, sent>>

\* Date.now(): the current instant is the origin of the clock
now == 0

\* a stored clock reading after d ms have passed; a reading that is already
\* older than the delay it is compared against (keep) stays just past it
Shift(t, d, keep) ==
    IF t = NULL THEN NULL
    ELSE IF t - d < now - (keep + 1) THEN now - (keep + 1)
    ELSE t - d

\* the state the functions of the source read and write
World == [players |-> players, gameState |-> gameState,
          recentAnnouncements |-> recentAnnouncements,
          timers |-> timers, sent |-> <<>>]

Range(s) == {s[i] : i \in 1..Len(s)}

\* players.has(ws) / players.get(ws)
HasPlayer(w, ws) == \E i \in 1..Len(w.players) : w.players[i].ws = ws
IndexOf(w, ws) == CHOOSE i \in 1..Len(w.players) : w.players[i].ws = ws
GetPlayer(w, ws) == w.players[IndexOf(w, ws)]

SizeOffByOne(w) == Len(w.players) + 1

\* players.size
Size(w) == Len(w.players)

\* Math.max(0, MIN_PLAYERS_TO_START - players.size)
PlayersNeededNone(w) == 0

\* Math.max(0, MIN_PLAYERS_TO_START - players.size)
PlayersNeeded(w) ==
    IF MIN_PLAYERS_TO_START - Size(w) > 0 THEN MIN_PLAYERS_TO_START - Size(w) ELSE 0

\* ws.send(JSON.stringify(msg))
Send(w, ws, msg) == [w EXCEPT !.sent = Append(@, msg @@ [to |-> ws])]

\* players.forEach((_, ws) => ws.send(JSON.stringify(msg)))
RECURSIVE SendFrom(_, _, _)
SendFrom(w, i, msg) ==
    IF i > Len(w.players) THEN w
    ELSE SendFrom(Send(w, w.players[i].ws, msg), i + 1, msg)

SendAll(w, msg) == SendFrom(w, 1, msg)

\* setTimeout(fn, delay)
SetTimeout(w, fn, delay) ==
    [w EXCEPT !.timers = Append(@, [fn |-> fn, due |-> now + delay])]

DeletePlayerLater(w, ws) == w

\* players.delete(ws)
DeletePlayer(w, ws) ==
    [w EXCEPT !.players = SelectSeq(@, LAMBDA p : p.ws # ws)]

\* player objects are mutated in place: write entry i back
SetPlayer(w, i, p) == [w EXCEPT !.players[i] = p]

(* ------------------------------------------------------------------ *)
(* Random draws of one handler                                         *)
(* ------------------------------------------------------------------ *)
\* generateFood(FOOD_COUNT): k items near Q, the others far away
FoodList(k) == [i \in 1..FOOD_COUNT |-> IF i <= k THEN NearFood ELSE FarFood]
\* the replacement of an eaten item
ReplDraws == {FarFood}

\* the draws of a handler when generateFood puts k items near Q: rnd.spawn[ws]
\* is the spawn position drawn for ws, rnd.food generateFood's result and
\* rnd.repl the position of a replacement food item
Draws(k) ==
    [spawn : [1..(MaxConns + 1) -> SpawnPoints], food : {FoodList(k)}, repl : ReplDraws]

(* ------------------------------------------------------------------ *)
(* Announcements and state broadcast                                   *)
(* ------------------------------------------------------------------ *)
Announcement(text, a, b, type, duration) ==
    [message |-> text, a |-> a, b |-> b, type |-> type, duration |-> duration]

broadcastAnnouncementKeeping(w, text, a, b, type, duration) ==
    LET announcement == Announcement(text, a, b, type, duration)
    IN SendAll([w EXCEPT !.recentAnnouncements = Append(@, announcement)],
               [type |-> "announcement", announcement |-> announcement])

broadcastAnnouncement(w, text, a, b, type, duration) ==
    LET announcement == Announcement(text, a, b, type, duration)
        pushed == Append(w.recentAnnouncements, announcement)
        kept == IF Len(pushed) > 1 THEN Tail(pushed) ELSE pushed
        w1 == [w EXCEPT !.recentAnnouncements = kept,
                        !.gameState.lastAnnouncementTime = now]
    IN SendAll(w1, [type |-> "announcement", announcement |-> announcement])

PlayerStateOf(p) ==
    [id |-> p.id, segments |-> p.segments, rotation |-> p.rotation,
     alive |-> p.alive, kills |-> p.kills, score |-> p.score]

AliveCount(w) == Cardinality({i \in 1..Len(w.players) : w.players[i].alive})

broadcastPlayerStates(w) ==
    IF Size(w) = 0 THEN w
    ELSE
    LET w1 == [w EXCEPT !.gameState.serverTime = now]
        w2 == IF /\ w1.gameState.lastAnnouncementTime # NULL
                 /\ now - w1.gameState.lastAnnouncementTime > ANNOUNCEMENT_TTL_MS
              THEN [w1 EXCEPT !.recentAnnouncements = <<>>]
              ELSE w1
        playerStates == [i \in 1..Len(w2.players) |-> PlayerStateOf(w2.players[i])]
        w3 == IF AliveCount(w2) = 0 /\ w2.gameState.isActive /\ Len(playerStates) > 0
              THEN SetTimeout(w2, "checkGameStatus", CHECK_DELAY_MS)
              ELSE w2
    IN SendAll(w3, [type |-> "playerStates",
                    players |-> playerStates,
                    roundNumber |-> w3.gameState.roundNumber,
                    winner |-> w3.gameState.winner,
                    serverTime |-> w3.gameState.serverTime,
                    endTime |-> w3.gameState.roundEndTime,
                    isActive |-> w3.gameState.isActive,
                    waitingForPlayers |-> w3.gameState.waitingForPlayers,
                    playersNeeded |-> IF w3.gameState.waitingForPlayers
                                      THEN PlayersNeeded(w3) ELSE 0,
                    announcements |-> w3.recentAnnouncements])

(* ------------------------------------------------------------------ *)
(* startNewRound                                                       *)
(* ------------------------------------------------------------------ *)
\* the reset of one player after a game over
ResetPlayer(p, rnd) ==
    [p EXCEPT !.segments = <<[position |-> rnd.spawn[p.ws]]>>,
              !.rotation = 0,
              !.alive = TRUE,
              !.lastUpdate = now,
              !.growth = 0]

RespawnWithoutSegments(p, rnd) == [p EXCEPT !.segments = <<>>, !.alive = TRUE]

RespawnEveryone(p, rnd) ==
    [p EXCEPT !.segments = <<[position |-> rnd.spawn[p.ws]]>>,
              !.rotation = 0,
              !.alive = TRUE]

\* the respawn of one player in an ordinary restart
RespawnPlayer(p, rnd) ==
    IF ~p.alive
    THEN [p EXCEPT !.segments = <<[position |-> rnd.spawn[p.ws]]>>,
                   !.rotation = 0,
                   !.alive = TRUE,
                   !.lastUpdate = now]
    ELSE p

NewRoundStateKeepingFood(gs, food) ==
    [gs EXCEPT !.roundNumber = @ + 1, !.gameOver = FALSE]

NewRoundStateFlagKept(gs, food) ==
    [gs EXCEPT !.roundNumber = @ + 1, !.food = food]

\* the round counter, the flag and the food of a round after a game over
NewRoundState(gs, food) ==
    [gs EXCEPT !.roundNumber = @ + 1, !.gameOver = FALSE, !.food = food]

startNewRoundIdle(w, rnd) == w

startNewRound(w, rnd) ==
    IF Size(w) < MIN_PLAYERS_TO_START
    THEN
        LET w1 == [w EXCEPT !.gameState.waitingForPlayers = TRUE,
                            !.gameState.isActive = FALSE,
                            !.gameState.roundEndTime = NULL]
            w2 == SendAll(w1, [type |-> "waitingForPlayers",
                               playersNeeded |-> PlayersNeeded(w1),
                               serverTime |-> w1.gameState.serverTime])
        IN broadcastAnnouncement(w2, "Waiting for players...", NULL, NULL,
                                 "info", ANNOUNCEMENT_DURATION_MS)
    ELSE
        LET w1 == [w EXCEPT !.gameState.isActive = TRUE,
                            !.gameState.winner = NULL,
                            !.gameState.roundEndTime = NULL]
            w2 == IF w1.gameState.gameOver
                  THEN [w1 EXCEPT
                          !.gameState = NewRoundState(@, rnd.food),
                          !.players = [i \in 1..Len(w1.players) |->
                                          ResetPlayer(w1.players[i], rnd)]]
                  ELSE [w1 EXCEPT
                          !.players = [i \in 1..Len(w1.players) |->
                                          RespawnPlayer(w1.players[i], rnd)]]
            w3 == SendAll(w2, [type |-> "newRound",
                               roundNumber |-> w2.gameState.roundNumber,
                               serverTime |-> w2.gameState.serverTime,
                               isActive |-> TRUE,
                               announcements |-> w2.recentAnnouncements])
            w4 == broadcastAnnouncement(w3, "Round started!", w3.gameState.roundNumber,
                                        NULL, "success", ANNOUNCEMENT_DURATION_MS)
        IN broadcastPlayerStates(w4)

(* ------------------------------------------------------------------ *)
(* checkGameStatus                                                     *)
(* ------------------------------------------------------------------ *)
LeaderboardEntry(p) == [id |-> p.id, kills |-> p.kills, score |-> p.score]

\* the comparator of the leaderboard sort: (a, b) => b.kills - a.kills;
\* a negative result keeps a before b
LeaderboardBefore(a, b) == b.kills - a.kills <= 0

\* Array.prototype.sort is stable: e goes behind every entry that is not after it
RECURSIVE InsertSorted(_, _)
InsertSorted(sorted, e) ==
    IF sorted = <<>> THEN <<e>>
    ELSE IF LeaderboardBefore(Head(sorted), e)
         THEN <<Head(sorted)>> \o InsertSorted(Tail(sorted), e)
         ELSE <<e>> \o sorted

RECURSIVE SortFrom(_, _, _)
SortFrom(entries, i, acc) ==
    IF i > Len(entries) THEN acc
    ELSE SortFrom(entries, i + 1, InsertSorted(acc, entries[i]))

LeaderboardUnsorted(w) ==
    [i \in 1..Len(w.players) |-> LeaderboardEntry(w.players[i])]

Leaderboard(w) ==
    SortFrom([i \in 1..Len(w.players) |-> LeaderboardEntry(w.players[i])], 1, <<>>)

\* Array.from(players.entries()).find(([_, player]) => player.kills >= WINNING_KILLS)
HasWinningKills(w) == \E i \in 1..Len(w.players) : w.players[i].kills >= WINNING_KILLS
PlayerWithWinningKills(w) ==
    w.players[CHOOSE i \in 1..Len(w.players) :
                  /\ w.players[i].kills >= WINNING_KILLS
                  /\ \A j \in 1..(i - 1) : w.players[j].kills < WINNING_KILLS]

GameOverBranchStillActive(w) ==
    [w EXCEPT !.gameState.winner = PlayerWithWinningKills(w).id]

\* the branch taken when a player has the winning kill count
GameOverBranch(w) ==
    LET winner == PlayerWithWinningKills(w)
        w1 == [w EXCEPT !.gameState.winner = winner.id,
                        !.gameState.roundEndTime = w.gameState.serverTime + GAME_OVER_DELAY_MS,
                        !.gameState.isActive = FALSE]
        w2 == SendAll(w1, [type |-> "gameOver",
                           winner |-> winner.id,
                           roundNumber |-> w1.gameState.roundNumber,
                           leaderboard |-> Leaderboard(w1),
                           serverTime |-> w1.gameState.serverTime,
                           endTime |-> w1.gameState.roundEndTime])
        w3 == [w2 EXCEPT !.recentAnnouncements = <<>>]
        w4 == broadcastAnnouncement(w3, "wins!", winner.id, NULL,
                                    "success", ANNOUNCEMENT_DURATION_MS)
    IN SetTimeout(w4, "gameOverReset", GAME_OVER_DELAY_MS)

\* the branch taken when exactly one of several players is alive
LastAliveBranch(w) ==
    LET i == CHOOSE k \in 1..Len(w.players) : w.players[k].alive
        winner == w.players[i]
        w1 == Send(w, winner.ws, [type |-> "lastAlive",
                                  serverTime |-> w.gameState.serverTime])
        w2 == broadcastAnnouncement(w1, "is last alive!", winner.id, NULL,
                                    "warning", ANNOUNCEMENT_DURATION_MS)
    IN IF Size(w2) - 1 > 0
       THEN SetTimeout(w2, "startNewRound", RESPAWN_DELAY_MS)
       ELSE w2

\* the branch taken when no player is alive
AllDeadBranch(w) ==
    LET w1 == [w EXCEPT !.gameState.roundEndTime = w.gameState.serverTime + RESPAWN_DELAY_MS,
                        !.gameState.isActive = FALSE]
        w2 == SendAll(w1, [type |-> "allDead",
                           serverTime |-> w1.gameState.serverTime,
                           endTime |-> w1.gameState.roundEndTime])
        w3 == broadcastAnnouncement(w2, "All snakes died!", NULL, NULL,
                                    "error", ANNOUNCEMENT_DURATION_MS)
    IN SetTimeout(w3, "startNewRound", RESPAWN_DELAY_MS)

checkGameStatus(w, rnd) ==
    IF ~(w.gameState.isActive /\ ~w.gameState.waitingForPlayers)
       /\ Size(w) < MIN_PLAYERS_TO_START
    THEN
        LET w1 == [w EXCEPT !.gameState.waitingForPlayers = TRUE,
                            !.gameState.isActive = FALSE]
        IN SendAll(w1, [type |-> "waitingForPlayers",
                        playersNeeded |-> PlayersNeeded(w1),
                        serverTime |-> w1.gameState.serverTime])
    ELSE IF w.gameState.waitingForPlayers /\ Size(w) >= MIN_PLAYERS_TO_START
    THEN startNewRound(w, rnd)
    ELSE IF ~w.gameState.isActive
    THEN w
    ELSE IF HasWinningKills(w)
    THEN GameOverBranch(w)
    ELSE IF AliveCount(w) = 1 /\ Size(w) > 1
    THEN LastAliveBranch(w)
    ELSE IF AliveCount(w) = 0 /\ Size(w) > 0
    THEN AllDeadBranch(w)
    ELSE w

(* ------------------------------------------------------------------ *)
(* updateSnakeSegments                                                 *)
(* ------------------------------------------------------------------ *)
\* the new position of a segment following prev
Follow(cur, prev) ==
    LET dx == prev.x - cur.x
        dy == prev.y - cur.y
        dsq == dx * dx + dy * dy
    IN \* distance > SEGMENT_DISTANCE * 1.2
       IF 25 * dsq > 36 * SEGMENT_DISTANCE * SEGMENT_DISTANCE
       THEN LET distance == Isqrt(dsq)
                newX == prev.x - (dx * SEGMENT_DISTANCE) \div distance
                newY == prev.y - (dy * SEGMENT_DISTANCE) \div distance
            IN Pos((cur.x + newX) \div 2, (cur.y + newY) \div 2)
       ELSE cur

RECURSIVE FollowFrom(_, _)
FollowFrom(segments, i) ==
    IF i > Len(segments) THEN segments
    ELSE FollowFrom([segments EXCEPT ![i].position =
                        Follow(segments[i].position, segments[i - 1].position)],
                    i + 1)

updateSnakeSegmentsFree(p) ==
    [p EXCEPT !.segments = FollowFrom(Append(@, @[Len(@)]), 2)]

updateSnakeSegments(p) ==
    LET grown == IF p.growth > 0 /\ Len(p.segments) > 0
                 THEN [p EXCEPT !.segments =
                           Append(@, [position |-> p.segments[Len(p.segments)].position]),
                                !.growth = @ - 1]
                 ELSE p
    IN [grown EXCEPT !.segments = FollowFrom(@, 2)]

(* ------------------------------------------------------------------ *)
(* checkFoodCollisions                                                 *)
(* ------------------------------------------------------------------ *)
SpliceNothing(s, i) == s

\* food.splice(i, 1)
Splice(s, i) == SubSeq(s, 1, i - 1) \o SubSeq(s, i + 1, Len(s))

EatFoodUnscored(w, c, i, rnd) ==
    [w EXCEPT !.gameState.food = Append(Splice(@, i), rnd.repl)]

\* one eaten item: index i of the food list, eaten by the player at index c
EatFood(w, c, i, rnd) ==
    LET p0 == w.players[c]
        p1 == [p0 EXCEPT !.score = @ + FOOD_SCORE_VALUE,
                         !.growth = @ + FOOD_SEGMENTS_GROWTH]
        w1 == [w EXCEPT !.gameState.food = Append(Splice(@, i), rnd.repl),
                        !.players[c] = p1]
        totalLength == Len(p1.segments) + p1.growth
        w2 == IF p1.score % SCORE_MILESTONE = 0 /\ p1.score > 0 /\ p1.score >= SCORE_MILESTONE
              THEN broadcastAnnouncement(w1, "points!", p1.id, p1.score,
                                         "success", ANNOUNCEMENT_DURATION_MS)
              ELSE w1
        w3 == IF totalLength = LENGTH_MILESTONE_1
              THEN broadcastAnnouncement(w2, "50 segments!", p1.id, NULL,
                                         "success", ANNOUNCEMENT_DURATION_MS)
              ELSE IF totalLength = LENGTH_MILESTONE_2
              THEN broadcastAnnouncement(w2, "100 segments!", p1.id, NULL,
                                         "success", ANNOUNCEMENT_DURATION_MS)
              ELSE w2
        \* the first entry of the map with the player's id
        j == CHOOSE k \in 1..Len(w3.players) :
                 /\ w3.players[k].id = p1.id
                 /\ \A m \in 1..(k - 1) : w3.players[m].id # p1.id
    IN Send(w3, w3.players[j].ws,
            [type |-> "foodEaten", score |-> p1.score,
             growth |-> Len(p1.segments) + p1.growth, effect |-> "grow"])

\* the loop over the food list, from index i down to the first item; the
\* iterations that find no collision change nothing and are skipped
RECURSIVE FoodLoop(_, _, _, _)
FoodLoop(w, c, i, rnd) ==
    LET head == w.players[c].segments[1].position
        near == {f \in Range(w.gameState.food) :
                    Closer(head, f, SEGMENT_RADIUS + FOOD_RADIUS)}
        hits == IF near = {} THEN {} ELSE {k \in 1..i : w.gameState.food[k] \in near}
    IN IF hits = {} THEN w
       ELSE LET k == CHOOSE m \in hits : \A n \in hits : n <= m
            IN FoodLoop(EatFood(w, c, k, rnd), c, k - 1, rnd)

checkFoodCollisions(w, c, rnd) ==
    IF ~w.players[c].alive \/ Len(w.players[c].segments) = 0 THEN w
    ELSE FoodLoop(w, c, Len(w.gameState.food), rnd)

(* ------------------------------------------------------------------ *)
(* checkCollisions                                                     *)
(* ------------------------------------------------------------------ *)
\* some non-head segment of the snake is within COLLISION_DISTANCE of head:
\* the loop over k = 1 .. segments.length - 1 stops at the first hit
TailHit(head, segments) ==
    \E k \in 2..Len(segments) : Closer(head, segments[k].position, COLLISION_DISTANCE)

HeadCollisionOneSided(w, c, i) ==
    Send([w EXCEPT !.players[c].alive = FALSE], w.players[c].ws,
         [type |-> "died", reason |-> "Head collision"])

\* head-to-head: the mover c and playerA (index i) both die
HeadCollision(w, c, i) ==
    LET cur == w.players[c]
        a == w.players[i]
        w1 == [w EXCEPT !.players[c].alive = FALSE, !.players[i].alive = FALSE]
        w2 == Send(w1, cur.ws, [type |-> "died", reason |-> "Head collision"])
        w3 == Send(w2, a.ws, [type |-> "died", reason |-> "Head collision"])
    IN broadcastAnnouncement(w3, "collided!", a.id, cur.id,
                             "error", ANNOUNCEMENT_DURATION_MS)

MoverHitsTailUnpaid(w, c, i) ==
    Send([w EXCEPT !.players[c].alive = FALSE], w.players[c].ws,
         [type |-> "died", reason |-> "Collided with another snake's tail",
          killedBy |-> w.players[i].id])

MoverHitsTailPerSegment(w, c, i) ==
    LET head == w.players[c].segments[1].position
        segments == w.players[i].segments
        hits == {k \in 2..Len(segments) :
                    Closer(head, segments[k].position, COLLISION_DISTANCE)}
    IN [w EXCEPT !.players[c].alive = FALSE,
                 !.players[i].kills = @ + Cardinality(hits)]

\* the mover's head hit playerA's tail
MoverHitsTail(w, c, i) ==
    LET a == [w.players[i] EXCEPT !.kills = @ + 1,
                                  !.score = @ + TAIL_KILL_SCORE,
                                  !.growth = @ + KILL_SEGMENTS_GROWTH]
        cur == w.players[c]
        w1 == [w EXCEPT !.players[c].alive = FALSE, !.players[i] = a]
        w2 == broadcastAnnouncement(w1, "killed", a.id, cur.id,
                                    "warning", ANNOUNCEMENT_DURATION_MS)
        w3 == IF a.kills = KILL_STREAK_ANNOUNCE
              THEN broadcastAnnouncement(w2, "5 kills!", a.id, NULL,
                                         "warning", ANNOUNCEMENT_DURATION_MS)
              ELSE IF a.kills = WINNING_KILLS - 1
              THEN broadcastAnnouncement(w2, "needs 1 more kill!", a.id, NULL,
                                         "error", ANNOUNCEMENT_DURATION_MS)
              ELSE w2
        w4 == Send(w3, cur.ws, [type |-> "died",
                                reason |-> "Collided with another snake's tail",
                                killedBy |-> a.id])
    IN Send(w4, a.ws, [type |-> "kill", kills |-> a.kills, score |-> a.score,
                       growth |-> KILL_SEGMENTS_GROWTH, victim |-> cur.id])

OtherHitsTailUncredited(w, c, i) == [w EXCEPT !.players[i].alive = FALSE]

\* playerA's head hit the mover's tail
OtherHitsTail(w, c, i) ==
    LET cur == [w.players[c] EXCEPT !.kills = @ + 1,
                                    !.score = @ + MOVER_KILL_SCORE,
                                    !.growth = @ + KILL_SEGMENTS_GROWTH]
        a == w.players[i]
        w1 == [w EXCEPT !.players[i].alive = FALSE, !.players[c] = cur]
        w2 == Send(w1, a.ws, [type |-> "died",
                              reason |-> "Collided with another snake's tail",
                              killedBy |-> cur.id])
    IN Send(w2, cur.ws, [type |-> "kill", victim |-> a.id,
                         kills |-> cur.kills, score |-> cur.score])

CollidableDead(w, c, i) == i # c /\ Len(w.players[i].segments) > 0

\* the entry at index i is checked against the mover at index c
Collidable(w, c, i) ==
    /\ i # c
    /\ w.players[i].alive
    /\ Len(w.players[i].segments) > 0

\* the body of the loop for the entry at index i, the mover being at index c
CollidePair(w, c, i) ==
    LET cur == w.players[c]
        a == w.players[i]
    IN IF ~Collidable(w, c, i) THEN w
       ELSE IF Len(cur.segments) = 0 THEN w
       ELSE IF Closer(cur.segments[1].position, a.segments[1].position, COLLISION_DISTANCE)
       THEN HeadCollision(w, c, i)
       ELSE
         LET w1 == IF TailHit(cur.segments[1].position, a.segments)
                   THEN MoverHitsTail(w, c, i)
                   ELSE w
         IN IF TailHit(a.segments[1].position, cur.segments)
            THEN OtherHitsTail(w1, c, i)
            ELSE w1

RECURSIVE CollideFrom(_, _, _)
CollideFrom(w, c, i) ==
    IF i > Len(w.players) THEN w
    ELSE CollideFrom(CollidePair(w, c, i), c, i + 1)

checkCollisions(w, c) == CollideFrom(w, c, 1)

(* ------------------------------------------------------------------ *)
(* Handlers                                                            *)
(* ------------------------------------------------------------------ *)
startFromWaitingStillWaiting(w, rnd) == startNewRound(w, rnd)

\* the start of a round by the tick or by open: waitingForPlayers is cleared
\* and startNewRound is called
startFromWaiting(w, rnd) ==
    startNewRound([w EXCEPT !.gameState.waitingForPlayers = FALSE], rnd)

\* crypto.randomUUID(): a fresh id for each connection
PlayerId(ws) == 100 + ws

\* the session stored by open
NewPlayer(ws, rnd) ==
    [ws |-> ws, id |-> PlayerId(ws),
     segments |-> <<[position |-> rnd.spawn[ws]]>>,
     rotation |-> 0, alive |-> TRUE, lastUpdate |-> now,
     kills |-> 0, score |-> 0, growth |-> 0]

\* websocket.open
open(w, ws, rnd) ==
    LET w1 == [w EXCEPT !.players =
                  SelectSeq(@, LAMBDA p : ~(now - p.lastUpdate > INACTIVE_TIMEOUT_MS))]
        w2 == [w1 EXCEPT !.players = Append(@, NewPlayer(ws, rnd))]
        w3 == Send(w2, ws, [type |-> "connected",
                            id |-> PlayerId(ws),
                            roundNumber |-> w2.gameState.roundNumber,
                            serverTime |-> w2.gameState.serverTime,
                            waitingForPlayers |-> w2.gameState.waitingForPlayers,
                            playersNeeded |-> IF w2.gameState.waitingForPlayers
                                              THEN PlayersNeeded(w2) ELSE 0])
        w4 == broadcastPlayerStates(w3)
    IN IF w4.gameState.waitingForPlayers /\ Size(w4) >= MIN_PLAYERS_TO_START
       THEN startFromWaiting(w4, rnd)
       ELSE w4

\* the parsed payloads clients send
\* a client moving to Q sends its heading, one moving to R sends none
MoveTo(position, rotation) ==
    [type |-> "movement", hasPosition |-> TRUE,
     position |-> position, rotation |-> rotation]
MovementData == {MoveTo(PointQ, HeadingQ), MoveTo(PointR, NULL)}
OtherData == {[type |-> "movement", hasPosition |-> FALSE,
               position |-> PointS, rotation |-> NULL],
              [type |-> "forceStart", hasPosition |-> FALSE,
               position |-> PointS, rotation |-> NULL]}
\* the movements of clients that head for U and V
TailData == {MoveTo(PointU, NULL), MoveTo(PointV, NULL)}
\* the movements of clients that head for W and Q
CrossData == {MoveTo(PointW, NULL), MoveTo(PointQ, HeadingQ)}
\* a frame: text JSON.parse rejects, or a parsed payload
FramesOf(moves) ==
    [malformed : {TRUE}, data : {[type |-> "none", hasPosition |-> FALSE,
                                   position |-> PointS, rotation |-> NULL]}]
    \cup [malformed : {FALSE}, data : moves \cup OtherData]
Frames == FramesOf(MovementData)

\* the movement branch of the message handler up to the call of
\* checkFoodCollisions
stepped(w, ws, data) ==
    LET c == IndexOf(w, ws)
        p0 == [w.players[c] EXCEPT !.lastUpdate = now]
        p1 == IF Len(p0.segments) > 0
              THEN [p0 EXCEPT !.segments[1].position = data.position]
              ELSE p0
        p2 == IF data.rotation # NULL THEN [p1 EXCEPT !.rotation = data.rotation] ELSE p1
    IN SetPlayer(w, c, updateSnakeSegments(p2))

\* the movement branch of the message handler up to the call of
\* checkCollisions
moved(w, ws, data, rnd) ==
    checkFoodCollisions(stepped(w, ws, data), IndexOf(w, ws), rnd)

\* the movement branch of the message handler
movement(w, ws, data, rnd) ==
    LET w2 == moved(w, ws, data, rnd)
        w3 == checkCollisions(w2, IndexOf(w, ws))
        w4 == checkGameStatus(w3, rnd)
    IN broadcastPlayerStates(w4)

parseErrorBroadcast(w, ws) ==
    SendAll(w, [type |-> "error", message |-> "Invalid message format"])

parseErrorSilent(w, ws) == w

\* the catch block of the message handler
parseError(w, ws) ==
    Send(w, ws, [type |-> "error", message |-> "Invalid message format"])

\* websocket.message
message(w, ws, frame, rnd) ==
    IF frame.malformed
    THEN parseError(w, ws)
    ELSE
    LET data == frame.data
    IN IF ~w.gameState.isActive /\ HasPlayer(w, ws) /\ Size(w) >= MIN_PLAYERS_TO_START
       THEN LET w1 == [w EXCEPT !.gameState.waitingForPlayers = FALSE,
                                !.gameState.isActive = TRUE]
                w2 == broadcastAnnouncement(w1, "Game starting!", NULL, NULL,
                                            "success", ANNOUNCEMENT_DURATION_MS)
            IN startNewRound(w2, rnd)
       ELSE IF ~HasPlayer(w, ws) THEN w
       ELSE IF ~w.gameState.isActive
       THEN IF Size(w) >= MIN_PLAYERS_TO_START
            THEN startNewRound(broadcastAnnouncement(w, "Starting game!", NULL, NULL,
                                                     "success", ANNOUNCEMENT_DURATION_MS),
                               rnd)
            ELSE w
       ELSE IF ~GetPlayer(w, ws).alive THEN w
       ELSE IF data.type = "forceStart"
       THEN LET w1 == [w EXCEPT !.gameState.waitingForPlayers = FALSE,
                                !.gameState.isActive = TRUE]
                w2 == broadcastAnnouncement(w1, "Game force-started!", NULL, NULL,
                                            "warning", ANNOUNCEMENT_DURATION_MS)
            IN startNewRound(w2, rnd)
       ELSE IF data.type = "movement" /\ data.hasPosition
       THEN movement(w, ws, data, rnd)
       ELSE w

\* websocket.close
close(w, ws) ==
    SetTimeout(broadcastPlayerStates(DeletePlayer(w, ws)), "checkGameStatus", CHECK_DELAY_MS)

\* the sessions the tick removes
Inactive(p) == now - p.lastUpdate > INACTIVE_TIMEOUT_MS

tickWithoutCheck(w, rnd) ==
    LET w1 == [w EXCEPT !.gameState.serverTime = now,
                        !.players = SelectSeq(@, LAMBDA p : ~Inactive(p))]
    IN IF Len(w1.players) < Len(w.players) THEN broadcastPlayerStates(w1) ELSE w1

\* the setInterval callback
tick(w, rnd) ==
    LET w1 == [w EXCEPT !.gameState.serverTime = now]
        w2 == IF /\ w1.gameState.waitingForPlayers
                 /\ ~w1.gameState.isActive
                 /\ Size(w1) >= MIN_PLAYERS_TO_START
              THEN startFromWaiting(w1, rnd)
              ELSE w1
        inactivePlayers == Cardinality({i \in 1..Len(w2.players) : Inactive(w2.players[i])})
        w3 == [w2 EXCEPT !.players = SelectSeq(@, LAMBDA p : ~Inactive(p))]
    IN IF inactivePlayers > 0
       THEN checkGameStatus(broadcastPlayerStates(w3), rnd)
       ELSE w3

\* the callback of the game-over timer
gameOverReset(w, rnd) ==
    LET w1 == [w EXCEPT !.players = [i \in 1..Len(w.players) |->
                                        [w.players[i] EXCEPT !.kills = 0, !.score = 0]],
                        !.gameState.waitingForPlayers = TRUE,
                        !.gameState.gameOver = TRUE]
    IN startNewRound(w1, rnd)

\* a setTimeout callback
timeout(w, fn, rnd) ==
    IF fn = "checkGameStatus" THEN checkGameStatus(w, rnd)
    ELSE IF fn = "startNewRound" THEN startNewRound(w, rnd)
    ELSE gameOverReset(w, rnd)

(* ------------------------------------------------------------------ *)
(* The state machine                                                   *)
(* ------------------------------------------------------------------ *)
\* the limits of a behaviour from the start of the server: the values its
\* kill counters take, the length of its snakes and the connections it opens
Limits ==
    [kills |-> 0..MaxKills, growth |-> 0..MaxGrowth, segs |-> MaxSegs,
     timers |-> MaxTimers, opens |-> MaxConns, food |-> MaxNearFood,
     moves |-> MovementData]

\* the limits of a behaviour from a round in which one session is a kill
\* short of winning; no food is generated within reach and no further
\* connection is opened
LateLimits ==
    [kills |-> {0} \cup ((WINNING_KILLS - 1)..(WINNING_KILLS - 1 + MaxKills)),
     growth |-> (0..MaxGrowth)
                \cup (LET g == KILL_SEGMENTS_GROWTH * (WINNING_KILLS - 1)
                      IN g..(g + MaxGrowth)),
     segs |-> MaxSegs, timers |-> MaxTimers + 1,
     opens |-> MaxConns, food |-> 0, moves |-> MovementData]

\* the limits of a behaviour in which the clients head for U and V
\* the snake that has grown grows one segment more, and the growth a kill
\* brings is not used
TailLimits ==
    [Limits EXCEPT !.food = 0, !.moves = TailData, !.segs = MaxSegs + 1,
                   !.growth = (0..FOOD_SEGMENTS_GROWTH) \cup {KILL_SEGMENTS_GROWTH + 1}]

\* the limits of a behaviour in which the clients head for W and Q
CrossLimits ==
    [Limits EXCEPT !.food = 0, !.moves = CrossData,
                   !.growth = {FOOD_SEGMENTS_GROWTH, FOOD_SEGMENTS_GROWTH + 1,
                               FOOD_SEGMENTS_GROWTH + KILL_SEGMENTS_GROWTH}]

\* the limits of a behaviour from the start of the round after a win: no
\* kill is added to the counters
EarlyLimits ==
    [LateLimits EXCEPT !.kills = {0}, !.growth = 0..FOOD_SEGMENTS_GROWTH]

Bounded(w, lim) ==
    /\ Len(w.timers) <= lim.timers
    /\ \A i \in 1..Len(w.players) :
          /\ w.players[i].kills \in lim.kills
          /\ w.players[i].growth \in lim.growth
          /\ w.players[i].score <= MaxScore
          /\ Len(w.players[i].segments) <= lim.segs

\* the handler's writes become the state
Commit(w, lim) ==
    /\ Bounded(w, lim)
    /\ players' = w.players
    /\ gameState' = w.gameState
    /\ recentAnnouncements' = w.recentAnnouncements
    /\ timers' = w.timers
    /\ sent' = w.sent

\* the module-level state after the server has started
Boot(food) ==
    [players |-> <<>>,
     gameState |-> [roundNumber |-> 1, food |-> food, winner |-> NULL,
                    serverTime |-> now, roundEndTime |-> NULL,
                    isActive |-> FALSE, waitingForPlayers |-> TRUE,
                    gameOver |-> FALSE, lastAnnouncementTime |-> now],
     recentAnnouncements |-> <<>>,
     timers |-> <<>>,
     sent |-> <<>>]

\* the server in world w with the connections conns open
Running(w, conns) ==
    /\ players = w.players
    /\ gameState = w.gameState
    /\ recentAnnouncements = w.recentAnnouncements
    /\ timers = w.timers
    /\ tickDue = TICK_INTERVAL_MS
    /\ sockets = conns
    /\ opened = Cardinality(conns)
    /\ sent = <<>>

Init == Running(Boot(FoodList(MaxNearFood)), {})

Open(lim) ==
    /\ opened < lim.opens
    /\ Cardinality(sockets) < MaxConns
    /\ \E rnd \in Draws(lim.food) : Commit(open(World, opened + 1, rnd), lim)
    /\ opened' = opened + 1
    /\ sockets' = sockets \cup {opened + 1}
    /\ UNCHANGED tickDue

Message(lim) ==
    /\ \E ws \in sockets, frame \in FramesOf(lim.moves), rnd \in Draws(lim.food) :
          Commit(message(World, ws, frame, rnd), lim)
    /\ UNCHANGED <<tickDue, sockets, opened>>

Close(lim) ==
    /\ \E ws \in sockets :
          /\ Commit(close(World, ws), lim)
          /\ sockets' = sockets \ {ws}
    /\ UNCHANGED <<tickDue, opened>>

Tick(lim) ==
    /\ tickDue <= now
    /\ \E rnd \in Draws(lim.food) : Commit(tick(World, rnd), lim)
    /\ tickDue' = tickDue + TICK_INTERVAL_MS
    /\ UNCHANGED <<sockets, opened>>

\* the timer of ts that fires next: the earliest due, the oldest among equals
NextTimer(ts) ==
    CHOOSE i \in 1..Len(ts) :
        /\ \A j \in 1..Len(ts) : ts[i].due <= ts[j].due
        /\ \A j \in 1..(i - 1) : ts[j].due > ts[i].due

\* the event loop runs the callback of the timer that fires next
fire(w, rnd) ==
    LET i == NextTimer(w.timers)
    IN timeout([w EXCEPT !.timers = Splice(@, i)], w.timers[i].fn, rnd)

Timeout(lim) ==
    /\ timers # <<>>
    /\ timers[NextTimer(timers)].due <= now
    /\ \E rnd \in Draws(lim.food) : Commit(fire(World, rnd), lim)
    /\ UNCHANGED <<tickDue, sockets, opened>>

\* the tick would start a round
TickStarts ==
    /\ gameState.waitingForPlayers
    /\ ~gameState.isActive
    /\ Len(players) >= MIN_PLAYERS_TO_START

\* the time of the first tick that finds p inactive
ReapTime(p) ==
    LET fresh == INACTIVE_TIMEOUT_MS + p.lastUpdate - tickDue
    IN IF fresh < 0 THEN tickDue
       ELSE tickDue + (fresh \div TICK_INTERVAL_MS + 1) * TICK_INTERVAL_MS

Min(a, b) == IF a <= b THEN a ELSE b

RECURSIVE MinReapFrom(_, _)
MinReapFrom(i, acc) ==
    IF i > Len(players) THEN acc
    ELSE MinReapFrom(i + 1, Min(acc, ReapTime(players[i])))

\* the next instant at which a callback has something to do: a timer is due,
\* or the tick starts a round or removes a session; a tick that does
\* neither only sets serverTime, and at most MaxJumpTicks of them are passed
NextDue ==
    LET limit == tickDue + (MaxJumpTicks - 1) * TICK_INTERVAL_MS
        tickAt == IF TickStarts THEN tickDue ELSE MinReapFrom(1, limit)
    IN IF timers # <<>> THEN Min(timers[NextTimer(timers)].due, tickAt) ELSE tickAt

\* the ticks that run before d ms have passed
TicksBefore(d) ==
    IF d <= tickDue THEN 0 ELSE (d - tickDue - 1) \div TICK_INTERVAL_MS + 1

\* the clock readings the world holds, d ms later
Elapse(w, d) ==
    [w EXCEPT !.players = [i \in 1..Len(w.players) |->
                              [w.players[i] EXCEPT !.lastUpdate =
                                                     Shift(@, d, INACTIVE_TIMEOUT_MS)]],
              !.gameState.serverTime = Shift(@, d, INACTIVE_TIMEOUT_MS),
              !.gameState.roundEndTime = Shift(@, d, INACTIVE_TIMEOUT_MS),
              !.gameState.lastAnnouncementTime = Shift(@, d, ANNOUNCEMENT_TTL_MS),
              !.timers = [i \in 1..Len(w.timers) |-> [w.timers[i] EXCEPT !.due = @ - d]],
              !.sent = <<>>]

\* time passes until the next callback has something to do; the ticks passed
\* have set serverTime
Advance ==
    /\ tickDue > now
    /\ timers # <<>> => timers[NextTimer(timers)].due > now
    /\ LET d == NextDue
           n == TicksBefore(d)
           w == Elapse(World, d)
       IN /\ players' = w.players
          /\ gameState' = IF n > 0
                          THEN [w.gameState EXCEPT
                                   !.serverTime = tickDue + (n - 1) * TICK_INTERVAL_MS - d]
                          ELSE w.gameState
          /\ timers' = w.timers
          /\ tickDue' = tickDue + n * TICK_INTERVAL_MS - d
    /\ sent' = <<>>
    /\ UNCHANGED <<recentAnnouncements, sockets, opened>>

(* ------------------------------------------------------------------ *)
(* A round one kill short of the win                                   *)
(* ------------------------------------------------------------------ *)
\* the frames of a client moving to Q and of one moving to R
ToQ == [malformed |-> FALSE, data |-> MoveTo(PointQ, HeadingQ)]
ToR == [malformed |-> FALSE, data |-> MoveTo(PointR, NULL)]

\* the next handler starts with nothing sent
Then(w) == [w EXCEPT !.sent = <<>>]

\* two connections open: the round starts with both heads at S
Joined(rnd) == open(Then(open(Boot(rnd.food), 1, rnd)), 2, rnd)

\* the session of connection 2 eats at Q, grows there and moves on to R,
\* leaving its tail within reach of Q
Grown(w, rnd) ==
    message(Then(message(Then(message(Then(w), 2, ToQ, rnd)), 2, ToQ, rnd)), 2, ToR, rnd)

\* the frame of a client asking for a forced start
ForceStart == [malformed |-> FALSE,
               data |-> [type |-> "forceStart", hasPosition |-> FALSE,
                         position |-> PointS, rotation |-> NULL]]

\* the session of connection 1 runs into that tail at Q, and the forceStart
\* of connection 2 respawns it
KilledOnce(w, rnd) == message(Then(message(Then(w), 1, ToQ, rnd)), 2, ForceStart, rnd)

\* the same n times over (each is evaluated before the next one starts)
RECURSIVE Killed(_, _, _)
Killed(w, n, rnd) ==
    IF n = 0 THEN w
    ELSE CHOOSE v \in {KilledOnce(u, rnd) : u \in {Killed(w, n - 1, rnd)}} : TRUE

\* the pending timers fire
RECURSIVE Fired(_, _)
Fired(w, rnd) ==
    IF w.timers = <<>> THEN w
    ELSE CHOOSE v \in {Fired(u, rnd) : u \in {fire(Then(w), rnd)}} : TRUE

\* the first round, one kill short of the win: the restarts the lastAlive
\* branch scheduled have fired RESPAWN_DELAY_MS after the kills
LateFirst(rnd) ==
    Then(Fired(Elapse(Killed(Grown(Joined(rnd), rnd), WINNING_KILLS - 1, rnd),
                      RESPAWN_DELAY_MS), rnd))

\* the win of the first round and the restart by the game-over timer
Restarted(w, rnd) == fire(Elapse(message(w, 1, ToQ, rnd), GAME_OVER_DELAY_MS), rnd)

\* n times over in the round the game-over timer started, the session of
\* connection 1 runs into the tail and is respawned by the same handler
RECURSIVE KilledAgain(_, _, _)
KilledAgain(w, n, rnd) ==
    IF n = 0 THEN w
    ELSE CHOOSE v \in {message(Then(u), 1, ToQ, rnd) :
                         u \in {KilledAgain(w, n - 1, rnd)}} : TRUE

\* the round after the first win, one kill short of the next
LateSecond(rnd) ==
    CHOOSE v \in {Then(KilledAgain(Grown(Restarted(u, rnd), rnd), WINNING_KILLS - 1, rnd)) :
                    u \in {LateFirst(rnd)}} : TRUE

InitLate == \E rnd \in Draws(MaxNearFood) : Running(LateFirst(rnd), {1, 2})

\* the round after the first win, before its first kill
EarlySecond(rnd) ==
    CHOOSE v \in {Then(Grown(Restarted(u, rnd), rnd)) : u \in {LateFirst(rnd)}} : TRUE

InitNext == \E rnd \in Draws(MaxNearFood) : Running(LateSecond(rnd), {1, 2})

InitEarly == \E rnd \in Draws(MaxNearFood) : Running(EarlySecond(rnd), {1, 2})

NextEarly ==
    \/ Message(EarlyLimits)
    \/ Close(EarlyLimits)
    \/ Tick(EarlyLimits)
    \/ Timeout(EarlyLimits)
    \/ Advance

SpecEarly == InitEarly /\ [][NextEarly]_vars

\* a round in which the session of connection 2 has grown a tail
InitTail == \E rnd \in Draws(MaxNearFood) : Running(Then(Grown(Joined(rnd), rnd)), {1, 2})

NextTail ==
    \/ Message(TailLimits)
    \/ Close(TailLimits)
    \/ Tick(TailLimits)
    \/ Timeout(TailLimits)
    \/ Advance

SpecTail == InitTail /\ [][NextTail]_vars

\* generateFood puts two items near Q and two near W
CrossFood ==
    [i \in 1..FOOD_COUNT |-> IF i <= 2 THEN NearFood
                             ELSE IF i <= 4 THEN NearFoodW ELSE FarFood]

CrossDraws ==
    [spawn : [1..(MaxConns + 1) -> SpawnPoints], food : {CrossFood}, repl : ReplDraws]

ToW == [malformed |-> FALSE, data |-> MoveTo(PointW, NULL)]

\* the session of connection 1 eats at W and grows there, the session of
\* connection 2 eats at Q and grows there
BothFed(w, rnd) ==
    CHOOSE v \in {message(Then(u), 2, ToQ, rnd) :
                    u \in {message(Then(message(Then(message(Then(w), 1, ToW, rnd)),
                                                1, ToW, rnd)),
                                   2, ToQ, rnd)}} : TRUE

\* the session of connection 1 moves on to R, leaving its tail at W
Crossing(rnd) ==
    CHOOSE v \in {message(Then(u), 1, ToR, rnd) : u \in {BothFed(Joined(rnd), rnd)}} : TRUE

InitCross == \E rnd \in CrossDraws : Running(Then(Crossing(rnd)), {1, 2})

NextCross ==
    \/ Message(CrossLimits)
    \/ Close(CrossLimits)
    \/ Tick(CrossLimits)
    \/ Timeout(CrossLimits)
    \/ Advance

SpecCross == InitCross /\ [][NextCross]_vars

ToU == [malformed |-> FALSE, data |-> MoveTo(PointU, NULL)]

\* three connections open: the third joins the round of the first two
JoinedThree(rnd) == open(Then(Joined(rnd)), 3, rnd)

\* the session of connection 1 eats at Q and grows there, the session of
\* connection 2 eats at W and moves on to R
TwoFed(w, rnd) ==
    CHOOSE v \in {message(Then(u), 2, ToR, rnd) :
                    u \in {message(Then(message(Then(message(Then(w), 1, ToQ, rnd)),
                                                2, ToW, rnd)),
                                   1, ToQ, rnd)}} : TRUE

\* the session of connection 2 moves on to U and the session of connection 1
\* to W: both leave a tail within reach of R
TailsAtR(rnd) ==
    CHOOSE v \in {message(Then(message(Then(u), 2, ToU, rnd)), 1, ToW, rnd) :
                    u \in {TwoFed(JoinedThree(rnd), rnd)}} : TRUE

\* the limits of a behaviour of three sessions that head for Q and R
ThreeLimits == [Limits EXCEPT !.food = 0]

InitThree == \E rnd \in CrossDraws : Running(Then(TailsAtR(rnd)), {1, 2, 3})

NextThree ==
    \/ Message(ThreeLimits)
    \/ Close(ThreeLimits)
    \/ Tick(ThreeLimits)
    \/ Timeout(ThreeLimits)
    \/ Advance

SpecThree == InitThree /\ [][NextThree]_vars

\* the event loop runs every callback that is due, and time passes
\* Tick and Timeout are weakly fair, written with their enabling conditions:
\* []<>~ENABLED <<A>>_vars \/ []<><<A>>_vars
TickEnabled(lim) ==
    /\ tickDue <= now
    /\ \E rnd \in Draws(lim.food) : Bounded(tick(World, rnd), lim)

TimeoutEnabled(lim) ==
    /\ timers # <<>>
    /\ timers[NextTimer(timers)].due <= now
    /\ \E rnd \in Draws(lim.food) : Bounded(fire(World, rnd), lim)

Fair(lim) ==
    /\ []<>(~TickEnabled(lim)) \/ []<><<Tick(lim)>>_vars
    /\ []<>(~TimeoutEnabled(lim)) \/ []<><<Timeout(lim)>>_vars
    /\ WF_vars(Advance)

NextLate ==
    \/ Message(LateLimits)
    \/ Close(LateLimits)
    \/ Tick(LateLimits)
    \/ Timeout(LateLimits)
    \/ Advance

SpecLate == InitLate /\ [][NextLate]_vars

SpecLateFair == SpecLate /\ Fair(LateLimits)

SpecNext == InitNext /\ [][NextLate]_vars

Next ==
    \/ Open(Limits)
    \/ Message(Limits)
    \/ Close(Limits)
    \/ Tick(Limits)
    \/ Timeout(Limits)
    \/ Advance

Spec == Init /\ [][Next]_vars

(* ------------------------------------------------------------------ *)
(* Properties                                                          *)
(* ------------------------------------------------------------------ *)
\* the draws a handler can make
AllDraws == Draws(0) \cup Draws(MaxNearFood)

\* the well-formed frame with payload data
Frame(data) == [malformed |-> FALSE, data |-> data]

\* w.sent holds a message of this type for connection ws
SentTo(w, ws, type) ==
    \E k \in 1..Len(w.sent) : w.sent[k].type = type /\ w.sent[k].to = ws

\* w.sent holds a message of this type for every session of w
SentToAll(w, type) == \A i \in 1..Len(w.players) : SentTo(w, w.players[i].ws, type)

\* the message handler processes a movement of ws in this state
Processes(ws) ==
    /\ gameState.isActive
    /\ HasPlayer(World, ws)
    /\ GetPlayer(World, ws).alive

\* C1: between handlers, isActive and waitingForPlayers are never both true
C1_ActiveXorWaiting == ~(gameState.isActive /\ gameState.waitingForPlayers)

\* C2: a processed movement that leaves a session with kills >= WINNING_KILLS
\* ends the round in the same handler: isActive is false, winner is the id of
\* a session at the threshold and gameOver is sent to every session
C2_WinEndsRound ==
    \A ws \in sockets, data \in MovementData, rnd \in AllDraws :
        Processes(ws) =>
            LET w == message(World, ws, Frame(data), rnd)
            IN HasWinningKills(w) =>
                  /\ ~w.gameState.isActive
                  /\ \E i \in 1..Len(w.players) :
                        /\ w.players[i].kills >= WINNING_KILLS
                        /\ w.gameState.winner = w.players[i].id
                  /\ SentToAll(w, "gameOver")

\* the last handler sent a gameOver message
SentGameOver == \E k \in 1..Len(sent) : sent[k].type = "gameOver"

\* C3: one gameOver broadcast per win: gameOver is sent only by the handler
\* in which a kill counter reaches the threshold
C3_OneGameOverPerWin ==
    [][SentGameOver' => \A i \in 1..Len(players) : players[i].kills < WINNING_KILLS]_vars

\* C4: roundNumber never decreases and increases by exactly 1 for each
\* threshold win: a step that changes it adds 1 and starts in a state that
\* holds a win not yet counted (a session with kills >= WINNING_KILLS, or the
\* gameOver flag left set by the game-over timer)
C4_OneRoundPerWin ==
    [][/\ gameState'.roundNumber >= gameState.roundNumber
       /\ gameState'.roundNumber # gameState.roundNumber =>
             /\ gameState'.roundNumber = gameState.roundNumber + 1
             /\ \/ gameState.gameOver
                \/ \E i \in 1..Len(players) : players[i].kills >= WINNING_KILLS]_vars

\* the status re-check scheduled by close or run by the reaping tick is next
RecheckDue ==
    /\ timers # <<>>
    /\ timers[NextTimer(timers)].fn = "checkGameStatus"

\* C5: with fewer than MIN_PLAYERS_TO_START sessions left, the status re-check
\* leaves waitingForPlayers = true and isActive = false and sends
\* waitingForPlayers to every remaining session, whatever the state before
C5_RecheckWaits ==
    \A rnd \in AllDraws :
        (RecheckDue /\ Len(players) < MIN_PLAYERS_TO_START) =>
            LET w == checkGameStatus(World, rnd)
            IN /\ w.gameState.waitingForPlayers
               /\ ~w.gameState.isActive
               /\ SentToAll(w, "waitingForPlayers")

\* C6: every step that makes the round active leaves at least
\* MIN_PLAYERS_TO_START sessions in the store
C6_ActiveNeedsPlayers ==
    [][(~gameState.isActive /\ gameState'.isActive) =>
          Len(players') >= MIN_PLAYERS_TO_START]_vars

C6_RoundStarted ==
    /\ gameState.isActive
    /\ Len(players) >= MIN_PLAYERS_TO_START
    /\ \E k \in 1..Len(sent) : sent[k].type = "newRound"

\* C7: a forceStart of a connected session while fewer than
\* MIN_PLAYERS_TO_START sessions are connected makes the round active
C7_ForceStartBypasses ==
    \A ws \in sockets, rnd \in AllDraws :
        (HasPlayer(World, ws) /\ Len(players) < MIN_PLAYERS_TO_START) =>
            LET w == message(World, ws, ForceStart, rnd)
            IN w.gameState.isActive /\ ~w.gameState.waitingForPlayers

\* C8: the food list has FOOD_COUNT items in every state, and the reshuffle of
\* the game-over restart puts FOOD_COUNT items in it
C8_FoodCount ==
    /\ Len(gameState.food) = FOOD_COUNT
    /\ \A rnd \in AllDraws : Len(gameOverReset(World, rnd).gameState.food) = FOOD_COUNT

\* one movement has eaten several items
C8_SeveralEaten ==
    /\ Cardinality({k \in 1..Len(sent) : sent[k].type = "foodEaten"}) > 1
    /\ Len(gameState.food) = FOOD_COUNT

\* C9: every session in the store has at least one segment, and has one
\* after the reset of the game-over restart
C9_HasSegment ==
    /\ \A i \in 1..Len(players) : Len(players[i].segments) >= 1
    /\ \A rnd \in AllDraws :
          LET w == gameOverReset(World, rnd)
          IN \A i \in 1..Len(w.players) : Len(w.players[i].segments) >= 1

C9_DeadAndRespawned ==
    /\ \E i \in 1..Len(players) : ~players[i].alive /\ Len(players[i].segments) >= 1
    /\ \E i \in 1..Len(players) : Len(players[i].segments) > 1

\* the mover at index c of w has its head on the tail of the alive session
\* at index i, the heads being apart
HeadOnTail(w, c, i) ==
    /\ i # c
    /\ w.players[i].alive
    /\ TailHit(w.players[c].segments[1].position, w.players[i].segments)
    /\ ~Closer(w.players[c].segments[1].position,
               w.players[i].segments[1].position, COLLISION_DISTANCE)

\* C10: when the mover's head is on the tail of an alive session B and the
\* heads are apart, the mover dies, B gains a kill, TAIL_KILL_SCORE points and
\* KILL_SEGMENTS_GROWTH growth, the mover is sent died with killedBy = B's id
\* and B is sent kill with victim = the mover's id
C10_TailKill ==
    \A ws \in sockets, data \in MovementData, rnd \in AllDraws :
        Processes(ws) =>
            LET c == IndexOf(World, ws)
                w == moved(World, ws, data, rnd)
                v == checkCollisions(w, c)
            IN \A i \in 1..Len(w.players) :
                  HeadOnTail(w, c, i) =>
                     /\ ~v.players[c].alive
                     /\ v.players[i].kills = w.players[i].kills + 1
                     /\ v.players[i].score = w.players[i].score + TAIL_KILL_SCORE
                     /\ v.players[i].growth = w.players[i].growth + KILL_SEGMENTS_GROWTH
                     /\ \E k \in 1..Len(v.sent) :
                           /\ v.sent[k].type = "died"
                           /\ v.sent[k].to = ws
                           /\ v.sent[k].reason # "Head collision"
                           /\ v.sent[k].killedBy = w.players[i].id
                     /\ \E k \in 1..Len(v.sent) :
                           /\ v.sent[k].type = "kill"
                           /\ v.sent[k].to = w.players[i].ws
                           /\ v.sent[k].victim = w.players[c].id

C10_Killed ==
    /\ \E k \in 1..Len(sent) : sent[k].type = "kill" /\ "growth" \in DOMAIN sent[k]
    /\ \E i \in 1..Len(players) : ~players[i].alive
    /\ \E i \in 1..Len(players) : players[i].kills = 1 /\ players[i].alive

\* the world after checkCollisions in the movement of ws
Collided(ws, data, rnd) ==
    checkCollisions(moved(World, ws, data, rnd), IndexOf(World, ws))

\* the mover at index c of w and the alive session at index i have their
\* heads within COLLISION_DISTANCE
HeadOnHead(w, c, i) ==
    /\ i # c
    /\ w.players[i].alive
    /\ Closer(w.players[c].segments[1].position,
              w.players[i].segments[1].position, COLLISION_DISTANCE)

\* C11: when the mover's head is within COLLISION_DISTANCE of the head of
\* another alive session, both become dead, both are sent died, and the
\* kills, score and growth of both are what they were before the check
C11_HeadToHead ==
    \A ws \in sockets, data \in MovementData, rnd \in AllDraws :
        Processes(ws) =>
            LET c == IndexOf(World, ws)
                w == moved(World, ws, data, rnd)
                v == Collided(ws, data, rnd)
            IN \A i \in 1..Len(w.players) :
                  HeadOnHead(w, c, i) =>
                     /\ ~v.players[c].alive
                     /\ ~v.players[i].alive
                     /\ SentTo(v, ws, "died")
                     /\ SentTo(v, w.players[i].ws, "died")
                     /\ \A j \in {c, i} :
                           /\ v.players[j].kills = w.players[j].kills
                           /\ v.players[j].score = w.players[j].score
                           /\ v.players[j].growth = w.players[j].growth
                     /\ \A k \in 1..Len(v.sent) : v.sent[k].type # "kill"

C11_BothDied ==
    /\ Cardinality({k \in 1..Len(sent) :
                       sent[k].type = "died" /\ sent[k].reason = "Head collision"}) = 2
    /\ \A i \in 1..Len(players) : ~players[i].alive /\ players[i].kills = 0

\* the positions of the food list of w within reach of the head of the
\* player at index c
Reached(w, c) ==
    {f \in Range(w.gameState.food) :
        Closer(w.players[c].segments[1].position, f, SEGMENT_RADIUS + FOOD_RADIUS)}

\* C12: checkFoodCollisions removes each food item within SEGMENT_RADIUS +
\* FOOD_RADIUS of the alive mover's head and appends one new item for it, adds
\* FOOD_SCORE_VALUE to the mover's score and FOOD_SEGMENTS_GROWTH to its
\* growth for each, and sends one foodEaten for each, to the mover only
C12_FoodEaten ==
    \A ws \in sockets, data \in MovementData, rnd \in Draws(MaxNearFood) :
        Processes(ws) =>
            LET c == IndexOf(World, ws)
                u == stepped(World, ws, data)
                v == checkFoodCollisions(u, c, rnd)
                near == Reached(u, c)
                n == Cardinality({k \in 1..Len(u.gameState.food) :
                                     u.gameState.food[k] \in near})
                last == Len(v.gameState.food)
            IN IF near = {} THEN v = u
               ELSE
               /\ last = Len(u.gameState.food)
               /\ SubSeq(v.gameState.food, 1, last - n) =
                     SelectSeq(u.gameState.food, LAMBDA f : f \notin near)
               /\ \A k \in (last - n + 1)..last : v.gameState.food[k] = rnd.repl
               /\ v.players[c].score = u.players[c].score + n * FOOD_SCORE_VALUE
               /\ v.players[c].growth = u.players[c].growth + n * FOOD_SEGMENTS_GROWTH
               /\ Cardinality({k \in 1..Len(v.sent) : v.sent[k].type = "foodEaten"}) = n
               /\ \A k \in 1..Len(v.sent) :
                     v.sent[k].type = "foodEaten" => v.sent[k].to = ws
               /\ \A j \in 1..Len(v.players) : j # c => v.players[j] = u.players[j]

C12_Ate ==
    /\ \E k \in 1..Len(sent) : sent[k].type = "foodEaten"
    /\ Len(players) = 2
    /\ \E i \in 1..Len(players) : players[i].score = FOOD_SCORE_VALUE * MaxNearFood
    /\ gameState.food[FOOD_COUNT] \in ReplDraws

\* the server waits with one session in the store, no round started yet
WaitingWithOne ==
    /\ Len(players) = 1
    /\ gameState.waitingForPlayers
    /\ ~gameState.isActive
    /\ opened = 1

\* C13: from the initial waiting state with one session connected, the open
\* of a second session makes the round active and sends newRound to both
\* sessions, with the same roundNumber
C13_SecondOpenStarts ==
    \A rnd \in AllDraws :
        WaitingWithOne =>
            LET w == open(World, opened + 1, rnd)
            IN /\ w.gameState.isActive
               /\ Len(w.players) = 2
               /\ \A ws \in {players[1].ws, opened + 1} : SentTo(w, ws, "newRound")
               /\ \A k \in 1..Len(w.sent) :
                     w.sent[k].type = "newRound" =>
                        w.sent[k].roundNumber = w.gameState.roundNumber

\* C14: from the start of the server, while only one connection has been
\* opened the server waits (waitingForPlayers true, isActive false), the
\* connected acknowledgment of that connection reports playersNeeded = 1, and
\* a movement of that session changes no alive flag, kills or score
C14_OneSessionWaits ==
    /\ opened <= 1 => gameState.waitingForPlayers /\ ~gameState.isActive
    /\ opened = 0 =>
          \A rnd \in AllDraws :
             LET w == open(World, 1, rnd)
             IN \E k \in 1..Len(w.sent) :
                   /\ w.sent[k].type = "connected"
                   /\ w.sent[k].to = 1
                   /\ w.sent[k].playersNeeded = 1
    /\ (opened = 1 /\ Len(players) = 1) =>
          \A data \in MovementData, rnd \in AllDraws :
             LET w == message(World, players[1].ws, Frame(data), rnd)
             IN /\ Len(w.players) = 1
                /\ w.players[1].alive = players[1].alive
                /\ w.players[1].kills = players[1].kills
                /\ w.players[1].score = players[1].score

C14_Alone ==
    /\ opened = 1
    /\ Len(players) = 1
    /\ gameState.waitingForPlayers
    /\ \E k \in 1..Len(sent) : sent[k].type = "connected" /\ sent[k].playersNeeded = 1

\* checkGameStatus runs on w in an active round with no session at the win
\* threshold
RoundGoesOn(w) == w.gameState.isActive /\ ~HasWinningKills(w)

\* the timers of w hold a startNewRound due in RESPAWN_DELAY_MS
RestartScheduled(w) ==
    \E k \in 1..Len(w.timers) :
        w.timers[k].fn = "startNewRound" /\ w.timers[k].due = now + RESPAWN_DELAY_MS

\* the world RESPAWN_DELAY_MS after w, when the restart has run
RestartOf(w, rnd) == startNewRound(Elapse(w, RESPAWN_DELAY_MS), rnd)

\* the restart of w took the respawn path: every session is alive, and
\* roundNumber and every session's kills and score are those of w
Respawned(w, rnd) ==
    LET z == RestartOf(w, rnd)
    IN /\ z.gameState.roundNumber = w.gameState.roundNumber
       /\ Len(z.players) = Len(w.players)
       /\ \A i \in 1..Len(z.players) :
             /\ z.players[i].alive
             /\ z.players[i].kills = w.players[i].kills
             /\ z.players[i].score = w.players[i].score

\* C15: when checkGameStatus runs in an active round with exactly one alive
\* session, more than one session and none at the win threshold, lastAlive is
\* sent to the survivor only, the round stays active, and the restart
\* scheduled RESPAWN_DELAY_MS later respawns the dead sessions and leaves
\* roundNumber, kills and scores unchanged
C15_LastAlive ==
    \A ws \in sockets, data \in MovementData, rnd \in AllDraws :
        Processes(ws) =>
            LET v == Then(Collided(ws, data, rnd))
                r == checkGameStatus(v, rnd)
            IN (RoundGoesOn(v) /\ AliveCount(v) = 1 /\ Size(v) > 1) =>
                  /\ \A i \in 1..Len(v.players) :
                        SentTo(r, v.players[i].ws, "lastAlive") <=> v.players[i].alive
                  /\ r.gameState.isActive
                  /\ RestartScheduled(r)
                  /\ Respawned(r, rnd)

\* C16: when checkGameStatus runs in an active round with no alive session,
\* at least one session and none at the win threshold, isActive becomes
\* false, roundEndTime is serverTime + RESPAWN_DELAY_MS, allDead is sent to
\* every session, and the startNewRound scheduled RESPAWN_DELAY_MS later
\* takes the respawn path
C16_AllDead ==
    \A ws \in sockets, data \in MovementData, rnd \in AllDraws :
        Processes(ws) =>
            LET v == Then(Collided(ws, data, rnd))
                r == checkGameStatus(v, rnd)
            IN (RoundGoesOn(v) /\ AliveCount(v) = 0 /\ Size(v) > 0) =>
                  /\ ~r.gameState.isActive
                  /\ r.gameState.roundEndTime = r.gameState.serverTime + RESPAWN_DELAY_MS
                  /\ SentToAll(r, "allDead")
                  /\ RestartScheduled(r)
                  /\ Respawned(r, rnd)

\* the frame JSON.parse rejects
Malformed == CHOOSE f \in Frames : f.malformed

\* C17: a message that is not valid JSON is answered with one error message,
\* sent to the sender; the store, the food, the round and the announcements
\* are left as they were
C17_InvalidJson ==
    \A ws \in sockets, rnd \in AllDraws :
        LET w == message(World, ws, Malformed, rnd)
        IN /\ Len(w.sent) = 1
           /\ w.sent[1].type = "error"
           /\ w.sent[1].to = ws
           /\ w.players = players
           /\ w.gameState = gameState
           /\ w.recentAnnouncements = recentAnnouncements
           /\ w.timers = timers

C17_Answered ==
    /\ Len(sent) = 1
    /\ sent[1].type = "error"
    /\ Len(players) = 2
    /\ gameState.isActive

\* C18: winner is non-null only if isActive is false
C18_WinnerOnlyInactive == gameState.winner # NULL => ~gameState.isActive

C18_Won ==
    /\ gameState.winner # NULL
    /\ \E i \in 1..Len(players) :
          players[i].kills >= WINNING_KILLS /\ players[i].id = gameState.winner

\* C19: a session that sends a movement message is not removed by a tick
\* that runs INACTIVE_TIMEOUT_MS later, whether the server waits, the round
\* is active or the session is dead
C19_SenderNotReaped ==
    \A ws \in sockets, data \in MovementData, rnd \in AllDraws :
        HasPlayer(World, ws) =>
            LET w == message(World, ws, Frame(data), rnd)
                z == tick(Elapse(w, INACTIVE_TIMEOUT_MS), rnd)
            IN HasPlayer(w, ws) => HasPlayer(z, ws)

\* C20: every kill message carries the fields kills, score, growth and victim
C20_KillFields ==
    \A k \in 1..Len(sent) :
        sent[k].type = "kill" =>
           {"kills", "score", "growth", "victim"} \subseteq DOMAIN sent[k]

\* a game-over timer is pending
GameOverPending == \E k \in 1..Len(timers) : timers[k].fn = "gameOverReset"

\* C21: between the gameOver broadcast and the firing of the game-over timer
\* isActive stays false: no message, tick or other timer makes the round
\* active while that timer is pending
C21_InactiveUntilTimer == GameOverPending => ~gameState.isActive

\* C22: startNewRound entered with enough players and gameOver = false
\* changes only dead sessions: a dead session gets one segment, rotation 0 and
\* alive = true; an alive session keeps segments, rotation and growth; every
\* session keeps kills and score; the food and roundNumber are unchanged
C22_RespawnFrame ==
    \A rnd \in AllDraws :
        (Size(World) >= MIN_PLAYERS_TO_START /\ ~gameState.gameOver) =>
            LET w == startNewRound(World, rnd)
            IN /\ Len(w.players) = Len(players)
               /\ \A i \in 1..Len(players) :
                     LET p == players[i]
                         q == w.players[i]
                     IN /\ q.ws = p.ws
                        /\ q.kills = p.kills
                        /\ q.score = p.score
                        /\ q.alive
                        /\ p.alive => /\ q.segments = p.segments
                                      /\ q.rotation = p.rotation
                                      /\ q.growth = p.growth
                        /\ ~p.alive => /\ q.segments = <<[position |-> rnd.spawn[p.ws]]>>
                                       /\ q.rotation = 0
               /\ w.gameState.food = gameState.food
               /\ w.gameState.roundNumber = gameState.roundNumber

C22_Restarted ==
    /\ \A i \in 1..Len(players) :
          \E k \in 1..Len(sent) : sent[k].type = "newRound" /\ sent[k].to = players[i].ws
    /\ ~gameState.gameOver
    /\ \E i, j \in 1..Len(players) :
          /\ players[i].kills >= 1
          /\ Len(players[i].segments) > 1
          /\ players[i].lastUpdate < now
          /\ Len(players[j].segments) = 1
          /\ players[j].rotation = 0
          /\ players[j].alive
          /\ players[j].lastUpdate = now

\* the number of food items near Q
NearCount(food) == Cardinality({i \in 1..Len(food) : food[i] = NearFood})

\* generateFood has not run in the handler that produced w: no item near Q
\* has appeared
FoodKept(w) ==
    /\ Len(w.gameState.food) = Len(gameState.food)
    /\ NearCount(w.gameState.food) <= NearCount(gameState.food)

\* the state after startNewRound has taken its game-over path from w0
FullReset(w0, w, rnd) ==
    /\ Len(w.players) = Len(w0.players)
    /\ \A i \in 1..Len(w.players) :
          LET q == w.players[i]
          IN /\ q.segments = <<[position |-> rnd.spawn[q.ws]]>>
             /\ q.rotation = 0
             /\ q.alive
             /\ q.growth = 0
    /\ w.gameState.food = rnd.food
    /\ w.gameState.roundNumber = w0.gameState.roundNumber + 1
    /\ ~w.gameState.gameOver

\* C23: startNewRound with enough players and gameOver = true resets every
\* session to one segment, rotation 0, alive = true and growth 0, replaces the
\* whole food set, adds 1 to roundNumber and clears gameOver; no other handler
\* replaces the food set
C23_GameOverReset ==
    \A rnd \in Draws(MaxNearFood) :
        /\ (GameOverPending /\ Size(World) >= MIN_PLAYERS_TO_START) =>
              FullReset(World, gameOverReset(World, rnd), rnd)
        /\ (gameState.gameOver /\ Size(World) >= MIN_PLAYERS_TO_START) =>
              FullReset(World, startNewRound(World, rnd), rnd)
        /\ ~gameState.gameOver =>
              /\ \A ws \in sockets, frame \in Frames :
                    FoodKept(message(World, ws, frame, rnd))
              /\ \A ws \in sockets : FoodKept(close(World, ws))
              /\ FoodKept(tick(World, rnd))
              /\ FoodKept(timeout(World, "checkGameStatus", rnd))
              /\ FoodKept(timeout(World, "startNewRound", rnd))

C23_NewGame ==
    /\ gameState.roundNumber = 2
    /\ gameState.isActive
    /\ ~gameState.gameOver
    /\ \E k \in 1..Len(sent) : sent[k].type = "newRound" /\ sent[k].roundNumber = 2
    /\ Len(players) >= MIN_PLAYERS_TO_START
    /\ \A i \in 1..Len(players) :
          /\ Len(players[i].segments) = 1
          /\ players[i].growth = 0
          /\ players[i].alive
          /\ players[i].kills = 0

\* C24: a dead session keeps its segments and rotation until a startNewRound
\* respawns it, and leaves the store only when its connection closes or it is
\* removed as inactive; a movement message of a dead session changes nothing,
\* and the collision pass of an alive mover leaves a session that was dead
\* untouched and is never lost or won against it
C24_DeadUntouched ==
    /\ [](\A ws \in sockets, data \in MovementData, rnd \in Draws(MaxNearFood) :
            /\ (gameState.isActive /\ HasPlayer(World, ws) /\ ~GetPlayer(World, ws).alive) =>
                  message(World, ws, Frame(data), rnd) = World
            /\ Processes(ws) =>
                  LET c == IndexOf(World, ws)
                      m == moved(World, ws, data, rnd)
                      v == Collided(ws, data, rnd)
                  IN /\ \A i \in 1..Len(players) :
                           ~players[i].alive =>
                               /\ v.players[i] = m.players[i]
                               /\ \A k \in 1..Len(v.sent) :
                                     v.sent[k].to = players[i].ws =>
                                         v.sent[k].type \notin {"died", "kill"}
                     /\ (\A i \in 1..Len(players) : i # c => ~players[i].alive) =>
                           v = m)
    /\ [][\A ws \in sockets :
            (HasPlayer(World, ws) /\ ~GetPlayer(World, ws).alive) =>
                LET p == GetPlayer(World, ws)
                    js == {j \in 1..Len(players') : players'[j].ws = ws}
                IN /\ \A j \in js :
                         \/ /\ ~players'[j].alive
                            /\ players'[j].segments = p.segments
                            /\ players'[j].rotation = p.rotation
                         \/ /\ players'[j].alive
                            /\ \E k \in 1..Len(sent') :
                                  sent'[k].type = "newRound" /\ sent'[k].to = ws
                   /\ js = {} => (ws \notin sockets' \/ Inactive(p))]_vars

C24_DeadIgnored ==
    /\ gameState.isActive
    /\ sent = <<>>
    /\ \E k \in 1..Len(timers) : timers[k].due = RESPAWN_DELAY_MS
    /\ \E i, j \in 1..Len(players) :
          /\ ~players[i].alive
          /\ players[i].lastUpdate = now
          /\ players[j].alive
          /\ TailHit(players[i].segments[1].position, players[j].segments)

\* C25: when the heads are apart, the mover's head is on the other session's
\* tail and the other session's head is on the mover's tail, both tail checks
\* take effect: both sessions die and both gain a kill and
\* KILL_SEGMENTS_GROWTH growth, the other session TAIL_KILL_SCORE points and
\* the mover MOVER_KILL_SCORE
C25_BothTailChecks ==
    \A ws \in sockets, data \in CrossData, rnd \in Draws(0) :
        Processes(ws) =>
            LET c == IndexOf(World, ws)
                m == moved(World, ws, data, rnd)
                v == Collided(ws, data, rnd)
            IN \A i \in 1..Len(m.players) :
                  (/\ HeadOnTail(m, c, i)
                   /\ TailHit(m.players[i].segments[1].position, m.players[c].segments)) =>
                      /\ ~v.players[c].alive
                      /\ ~v.players[i].alive
                      /\ v.players[i].kills = m.players[i].kills + 1
                      /\ v.players[c].kills = m.players[c].kills + 1
                      /\ v.players[i].score = m.players[i].score + TAIL_KILL_SCORE
                      /\ v.players[c].score = m.players[c].score + MOVER_KILL_SCORE
                      /\ v.players[i].growth = m.players[i].growth + KILL_SEGMENTS_GROWTH
                      /\ v.players[c].growth = m.players[c].growth + KILL_SEGMENTS_GROWTH

C25_KilledEachOther ==
    /\ Len(players) = 2
    /\ \A i \in 1..Len(players) :
          /\ ~players[i].alive
          /\ players[i].kills = 1
          /\ \E k \in 1..Len(sent) :
                /\ sent[k].type = "kill"
                /\ sent[k].to = players[i].ws
          /\ \E k \in 1..Len(sent) :
                /\ sent[k].type = "died"
                /\ sent[k].to = players[i].ws
                /\ sent[k].reason = "Collided with another snake's tail"

\* the messages of this type sent to ws in w
CountSent(w, ws, type) ==
    Cardinality({k \in 1..Len(w.sent) : w.sent[k].type = type /\ w.sent[k].to = ws})

\* the non-head segments of segments within COLLISION_DISTANCE of head
SegmentsHit(head, segments) ==
    {k \in 2..Len(segments) : Closer(head, segments[k].position, COLLISION_DISTANCE)}

\* C26: a tail hit of one pair in one direction is resolved once, however
\* many tail segments are within COLLISION_DISTANCE of the head: the killer's
\* kills grow by exactly 1, and exactly one died and one kill message are sent
C26_OneKillPerHit ==
    \A ws \in sockets, data \in CrossData, rnd \in Draws(0) :
        Processes(ws) =>
            LET c == IndexOf(World, ws)
                m == moved(World, ws, data, rnd)
                v == Collided(ws, data, rnd)
            IN \A i \in 1..Len(m.players) :
                  LET cur == m.players[c]
                      a == m.players[i]
                      apart == /\ i # c
                               /\ a.alive
                               /\ ~Closer(cur.segments[1].position,
                                          a.segments[1].position, COLLISION_DISTANCE)
                  IN /\ (apart /\ SegmentsHit(cur.segments[1].position, a.segments) # {}) =>
                           /\ v.players[i].kills = a.kills + 1
                           /\ CountSent(v, cur.ws, "died") = 1
                           /\ CountSent(v, a.ws, "kill") = 1
                     /\ (apart /\ SegmentsHit(a.segments[1].position, cur.segments) # {}) =>
                           /\ v.players[c].kills = cur.kills + 1
                           /\ CountSent(v, a.ws, "died") = 1
                           /\ CountSent(v, cur.ws, "kill") = 1

C26_SeveralSegmentsHit ==
    \E i, j \in 1..Len(players) :
        /\ i # j
        /\ ~players[j].alive
        /\ Cardinality(SegmentsHit(players[j].segments[1].position,
                                   players[i].segments)) >= 2
        /\ players[i].kills = 1
        /\ Cardinality({k \in 1..Len(sent) :
                           sent[k].type = "kill" /\ sent[k].to = players[i].ws}) = 1
        /\ Cardinality({k \in 1..Len(sent) :
                           sent[k].type = "died" /\ sent[k].to = players[j].ws}) = 1

\* C27: updateSnakeSegments appends at most one segment, and only when
\* growth > 0, taking 1 from growth: segments.length + growth is unchanged by
\* the call, and growth is never negative
C27_GrowthConserved ==
    \A i \in 1..Len(players) :
        /\ players[i].growth >= 0
        /\ \A data \in MovementData :
              LET p == [players[i] EXCEPT !.segments[1].position = data.position]
                  q == updateSnakeSegments(p)
                  added == Len(q.segments) - Len(p.segments)
              IN /\ added \in {0, 1}
                 /\ added = 1 <=> p.growth > 0
                 /\ q.growth = p.growth - added
                 /\ q.growth >= 0
                 /\ Len(q.segments) + q.growth = Len(p.segments) + p.growth

C27_Grew ==
    \E i \in 1..Len(players) :
        /\ players[i].lastUpdate = now
        /\ \E k \in 1..Len(sent) : sent[k].type = "playerStates"
        /\ Len(players[i].segments) = 3
        /\ players[i].growth = 2 * FOOD_SEGMENTS_GROWTH - 2
        /\ players[i].score = 2 * FOOD_SCORE_VALUE

C29_CloseRemovesFirst ==
    \A ws \in sockets :
        HasPlayer(World, ws) =>
            LET p == GetPlayer(World, ws)
                w == close(World, ws)
            IN /\ ~HasPlayer(w, ws)
               /\ Len(w.players) = Len(players) - 1
               /\ \A k \in 1..Len(w.sent) :
                     /\ w.sent[k].to # ws
                     /\ w.sent[k].type = "playerStates" =>
                           \A n \in 1..Len(w.sent[k].players) :
                               w.sent[k].players[n].id # p.id
               /\ Len(players) > 1 => \E k \in 1..Len(w.sent) : w.sent[k].type = "playerStates"
               /\ w.timers # <<>>
               /\ w.timers[Len(w.timers)] = [fn |-> "checkGameStatus", due |-> now + CHECK_DELAY_MS]
               /\ w.gameState.isActive = gameState.isActive
               /\ w.gameState.waitingForPlayers = gameState.waitingForPlayers
               /\ w.gameState.winner = gameState.winner
               /\ w.gameState.roundNumber = gameState.roundNumber

C29_HandledBeforeRecheck ==
    /\ RecheckDue
    /\ timers[NextTimer(timers)].due = CHECK_DELAY_MS
    /\ Len(players) = 1
    /\ opened = 2
    /\ Cardinality(sockets) = 1
    /\ Len(sent) = 1
    /\ sent[1].type = "error"

\* the announcement messages of the last handler, by position in sent
Announced == {k \in 1..Len(sent) : sent[k].type = "announcement"}

\* C30: recentAnnouncements holds at most one announcement in every state;
\* a call of broadcastAnnouncement leaves exactly the announcement it pushed,
\* so after a handler that announced, the buffer holds its last announcement
C30_OneAnnouncement ==
    /\ Len(recentAnnouncements) <= 1
    /\ \A type \in {"info", "success", "warning", "error"} :
          LET w == broadcastAnnouncement(World, "text", NULL, NULL, type,
                                         ANNOUNCEMENT_DURATION_MS)
          IN w.recentAnnouncements =
                <<Announcement("text", NULL, NULL, type, ANNOUNCEMENT_DURATION_MS)>>
    /\ Announced # {} =>
          LET last == CHOOSE k \in Announced : \A n \in Announced : n <= k
          IN recentAnnouncements = <<sent[last].announcement>>

C30_Replaced ==
    /\ \E k, n \in Announced :
          /\ k < n
          /\ sent[k].announcement # sent[n].announcement
          /\ \A m \in Announced : m <= n
          /\ recentAnnouncements = <<sent[n].announcement>>

\* C31: the leaderboard of every gameOver message has exactly one entry for
\* each session in the store, carrying its kills and score, in an order of
\* non-increasing kills in which the score plays no part: entries with equal
\* kills stay in the order of the store
C31_LeaderboardByKills ==
    \A k \in 1..Len(sent) :
        sent[k].type = "gameOver" =>
            LET board == sent[k].leaderboard
                at(id) == CHOOSE i \in 1..Len(players) : players[i].id = id
            IN /\ Len(board) = Len(players)
               /\ \A i \in 1..Len(players) :
                     Cardinality({n \in 1..Len(board) : board[n].id = players[i].id}) = 1
               /\ \A n \in 1..Len(board) :
                     /\ \E i \in 1..Len(players) : players[i].id = board[n].id
                     /\ board[n].kills = players[at(board[n].id)].kills
                     /\ board[n].score = players[at(board[n].id)].score
               /\ \A n, m \in 1..Len(board) :
                     n < m =>
                        /\ board[n].kills >= board[m].kills
                        /\ board[n].kills = board[m].kills =>
                              at(board[n].id) < at(board[m].id)

C31_WinnerLeads ==
    \E k \in 1..Len(sent) :
        /\ sent[k].type = "gameOver"
        /\ Len(sent[k].leaderboard) = 2
        /\ sent[k].leaderboard[1].id = players[2].id
        /\ sent[k].leaderboard[1].kills = WINNING_KILLS
        /\ sent[k].leaderboard[2].kills < WINNING_KILLS

\* C32 as stated: a message on a connection that has no session in the store
\* changes nothing and produces no outbound message
C32_SessionlessIgnored ==
    \A ws \in sockets, frame \in Frames, rnd \in Draws(MaxNearFood) :
        ~HasPlayer(World, ws) => message(World, ws, frame, rnd) = World

\* C32: a message on a connection that has no session in the store changes
\* no session, food, round, announcement or timer; a message that parses
\* produces no outbound message, one that does not parse is answered with
\* one error message to that connection
C32_SessionlessUnchanged ==
    \A ws \in sockets, frame \in Frames, rnd \in Draws(MaxNearFood) :
        ~HasPlayer(World, ws) =>
            LET w == message(World, ws, frame, rnd)
            IN /\ [w EXCEPT !.sent = <<>>] = World
               /\ ~frame.malformed => w.sent = <<>>
               /\ frame.malformed =>
                     /\ Len(w.sent) = 1
                     /\ w.sent[1].type = "error"
                     /\ w.sent[1].to = ws

C32_SessionlessAnswered ==
    /\ Len(sent) = 1
    /\ sent[1].type = "error"
    /\ sent[1].to \in sockets
    /\ \A i \in 1..Len(players) : players[i].ws # sent[1].to
    /\ Len(players) >= 1

\* C33: after a tick no session is left in the store whose lastUpdate is more
\* than INACTIVE_TIMEOUT_MS older than the tick's clock reading; a tick that
\* removed a session broadcasts the player states and runs checkGameStatus
\* before it ends, and a tick that removed none sends nothing
C33_TickReaps ==
    \A rnd \in Draws(MaxNearFood) :
        LET w == tick(World, rnd)
            stale == {i \in 1..Len(players) : Inactive(players[i])}
            kept == [World EXCEPT !.gameState.serverTime = now,
                                  !.players = SelectSeq(@, LAMBDA p : ~Inactive(p))]
        IN /\ \A i \in 1..Len(w.players) :
                 now - w.players[i].lastUpdate <= INACTIVE_TIMEOUT_MS
           /\ ~TickStarts =>
                 /\ stale # {} => w = checkGameStatus(broadcastPlayerStates(kept), rnd)
                 /\ stale = {} => w = kept

C33_ReapedAndChecked ==
    /\ tickDue = TICK_INTERVAL_MS
    /\ Len(players) = 1
    /\ Cardinality(sockets) = 2
    /\ gameState.waitingForPlayers
    /\ ~gameState.isActive
    /\ Len(sent) = 2
    /\ sent[1].type = "playerStates"
    /\ sent[2].type = "waitingForPlayers"

\* C34: between handlers gameOver is true only if isActive is false and
\* waitingForPlayers is true, and a step sets the flag only when the
\* game-over timer fires with fewer than MIN_PLAYERS_TO_START sessions in the
\* store
C34_GameOverOnlyWaiting ==
    /\ [](gameState.gameOver =>
             /\ ~gameState.isActive
             /\ gameState.waitingForPlayers
             /\ \A rnd \in Draws(MaxNearFood) :
                   LET w == open(World, opened + 1, rnd)
                   IN w.gameState.gameOver =>
                         (~w.gameState.isActive /\ w.gameState.waitingForPlayers))
    /\ [][(~gameState.gameOver /\ gameState'.gameOver) =>
             /\ GameOverPending
             /\ timers[NextTimer(timers)].fn = "gameOverReset"
             /\ timers[NextTimer(timers)].due <= now
             /\ Len(players) < MIN_PLAYERS_TO_START
             /\ players' = [i \in 1..Len(players) |->
                               [players[i] EXCEPT !.kills = 0, !.score = 0]]]_vars

C34_FlagSurvived ==
    /\ gameState.gameOver
    /\ Len(players) = 1
    /\ players[1].kills = 0
    /\ \E k \in 1..Len(sent) : sent[k].type = "waitingForPlayers"

\* the pending timers that restart the round
RestartTimers ==
    {k \in 1..Len(timers) : timers[k].fn \in {"startNewRound", "gameOverReset"}}

\* C35: at most one round-restart timer (a scheduled startNewRound of the
\* lastAlive or allDead branch, or the game-over timer) is pending at any time
\* and a movement message handled while one is pending schedules no further one
C35_OneRestartTimer ==
    /\ Cardinality(RestartTimers) <= 1
    /\ \A ws \in sockets, data \in MovementData, rnd \in Draws(0) :
          (Processes(ws) /\ RestartTimers # {}) =>
              LET w == message(World, ws, Frame(data), rnd)
              IN Cardinality({k \in 1..Len(w.timers) :
                                 w.timers[k].fn \in {"startNewRound", "gameOverReset"}}) <= 1

\* C36: the collision pass of one movement message raises the kill count of
\* at most one session other than the mover
C36_OneKillerPerDeath ==
    \A ws \in sockets, data \in MovementData, rnd \in Draws(0) :
        Processes(ws) =>
            LET c == IndexOf(World, ws)
                m == moved(World, ws, data, rnd)
                v == Collided(ws, data, rnd)
            IN Cardinality({i \in 1..Len(m.players) :
                               i # c /\ v.players[i].kills > m.players[i].kills}) <= 1

\* C37: an inactive state with MIN_PLAYERS_TO_START sessions in the store has
\* waitingForPlayers true or a restart timer pending, and from it the round
\* becomes active again unless the store drops below MIN_PLAYERS_TO_START
C37_RoundResumes ==
    /\ []((~gameState.isActive /\ Len(players) >= MIN_PLAYERS_TO_START) =>
             (gameState.waitingForPlayers \/ RestartTimers # {}))
    /\ ((~gameState.isActive /\ Len(players) >= MIN_PLAYERS_TO_START)
           ~> (gameState.isActive \/ Len(players) < MIN_PLAYERS_TO_START))

C37_Resumed ==
    /\ gameState.isActive
    /\ Len(players) >= MIN_PLAYERS_TO_START
    /\ timers = <<>>
    /\ sent # <<>>
    /\ sent[1].type = "newRound"
    /\ \A i \in 1..Len(players) : players[i].kills = 0 /\ players[i].alive

====
